---- MODULE Spec2Model ----
(***************************************************************************)
(* Model of the descendant numbering of the Compact Detailed Descendant    *)
(* Report (src/CompactDetailedDescendantReport.py).                        *)
(*                                                                         *)
(* The recursive filters apply_henry_filter, apply_mhenry_filter and       *)
(* apply_daboville_filter are run as a machine with an explicit call       *)
(* stack: one step per call of a filter (its guard and its body up to the  *)
(* child loop) and one step per return.  Strings are sequences of          *)
(* one-character strings; they are compared as Python compares them, by    *)
(* code point.                                                             *)
(***************************************************************************)
EXTENDS Integers, Sequences, FiniteSets, TLC

----------------------------------------------------------------------------
(* Bounds of the model *)

\* largest value of the "gen" option that is tried
MaxGen == 3
\* largest number of families taken from the pool into one database
MaxFamilies == 3
\* number of children of the wide family (ordinals 10 and above need 10)
WideKids == 10

----------------------------------------------------------------------------
(* Strings *)

Digits == <<"0", "1", "2", "3", "4", "5", "6", "7", "8", "9">>

\* the characters that occur in codes, in code point order
AsciiOrder ==
  <<" ", "(", ")", ",", ".",
    "0", "1", "2", "3", "4", "5", "6", "7", "8", "9", ":",
    "A", "B", "C", "D", "E", "F", "G", "H", "I", "J", "K", "L", "M",
    "N", "O", "P", "Q", "R", "S", "T", "U", "V", "W", "X", "Y", "Z",
    "[", "]",
    "a", "b", "c", "d", "e", "f", "g", "h", "i", "j", "k", "l", "m",
    "n", "o", "p", "q", "r", "s", "t", "u", "v", "w", "x", "y", "z",
    "{", "|", "}">>

Ord(c) == CHOOSE i \in 1..Len(AsciiOrder) : AsciiOrder[i] = c

\* Python's a < b on str
StrLT(a, b) ==
  \E i \in 1..Len(b) :
    /\ i <= Len(a) + 1
    /\ \A j \in 1..(i - 1) : a[j] = b[j]
    /\ (i = Len(a) + 1 \/ Ord(a[i]) < Ord(b[i]))

\* Python's a > b on str
StrGT(a, b) == StrLT(b, a)

\* Python's str(n) for n >= 0
RECURSIVE DecStr(_)
DecStr(n) ==
  IF n < 10 THEN <<Digits[n + 1]>>
  ELSE DecStr(n \div 10) \o <<Digits[(n % 10) + 1]>>

HENRY ==
  <<"1", "2", "3", "4", "5", "6", "7", "8", "9",
    "A", "B", "C", "D", "E", "F", "G", "H", "I", "J", "K", "L", "M",
    "N", "O", "P", "Q", "R", "S", "T", "U", "V", "W", "X", "Y", "Z">>

\* the value of dict.get for a missing key, and of a handle that is not set
None == <<"None">>

\* Python truthiness of a str or None
Truthy(x) == x # None /\ x # <<>>

Max(S) == CHOOSE x \in S : \A y \in S : y <= x

\* the numbers in S in ascending order
Ascending(S) ==
  [k \in 1..Cardinality(S) |->
     CHOOSE x \in S : Cardinality({y \in S : y <= x}) = k]

----------------------------------------------------------------------------
(* The database: persons are handles 1, 2, ...; 0 is "no handle".  A       *)
(* family has a father handle, a mother handle and an ordered list of      *)
(* child references; the handle of a family is its position in db.         *)

Fam(f, m, c) == [father |-> f, mother |-> m, children |-> c]

\* the families a database is put together from; the center person is 1
Pool ==
  << Fam(1, 0, <<2, 3>>),      \* the center person's family, two children
     Fam(0, 1, <<4>>),         \* a second family of the center person
     Fam(2, 3, <<4>>),         \* both parents descend from the center person
     Fam(3, 2, <<5, 4>>),      \* the same, father and mother exchanged
     Fam(2, 0, <<3>>),         \* 3 is a child and a grandchild of 1
     Fam(3, 0, <<4>>),
     Fam(2, 5, <<4, 3>>),      \* the spouse 5 is no descendant
     Fam(1, 2, <<3>>),         \* the center person and its own child
     Fam(4, 0, <<5, 1>>),      \* lists the center person as a child: a cycle
     Fam(0, 0, <<1>>),         \* parent family of 1 without parents
     Fam(5, 6, <<1>>) >>       \* parent family of 1, parents outside the tree

\* the sequence of the pool's families whose positions are in s, in order
PoolDb(s) ==
  LET n == Cardinality(s)
      nth(i) == CHOOSE x \in s : Cardinality({y \in s : y < x}) = i - 1
  IN  [i \in 1..n |-> Pool[nth(i)]]

PoolDbs ==
  { PoolDb(s) : s \in { t \in SUBSET (1..Len(Pool)) : Cardinality(t) <= MaxFamilies } }

\* databases with one family of WideKids children, of the center person or
\* of its only child, with and without a parent family of the center
\* person; in one the last child is a grandchild as well
WideDbs ==
  LET kids(first) == [i \in 1..WideKids |-> first + i - 1]
  IN  { <<Fam(1, 0, kids(2))>>,
        <<Fam(1, 0, kids(2)), Fam(2, 0, <<WideKids + 1>>)>>,
        <<Fam(1, 0, <<2>>), Fam(0, 2, kids(3))>>,
        <<Fam(0, 0, <<1>>), Fam(1, 0, kids(2))>>,
        <<Fam(0, 0, <<1>>), Fam(1, 0, <<2>>), Fam(0, 2, kids(3))>> }

\* databases with families without children, which only the report writer
\* tells apart: spouses shared by several families, in and outside the tree
MarriedDbs ==
  { <<Fam(1, 5, <<>>)>>,
    <<Fam(1, 0, <<2, 3>>), Fam(2, 5, <<>>), Fam(3, 5, <<>>)>>,
    <<Fam(1, 5, <<2>>), Fam(2, 5, <<3>>), Fam(1, 6, <<>>)>>,
    <<Fam(1, 0, <<2, 3, 4>>), Fam(2, 3, <<>>), Fam(4, 3, <<>>)>>,
    <<Fam(1, 0, <<2>>), Fam(2, 0, <<3>>), Fam(3, 5, <<>>)>>,
    <<Fam(1, 5, <<2, 3>>), Fam(5, 2, <<>>), Fam(3, 0, <<4>>), Fam(6, 4, <<>>)>>,
    <<Fam(0, 0, <<1>>), Fam(1, 0, <<2, 3>>), Fam(2, 3, <<4>>), Fam(4, 5, <<>>)>> }

\* databases with a family whose two parents both descend from the center
\* person, entered first from the parent that is numbered first, and a
\* further family of that parent; the center person has a parent family
LoopDbs ==
  { <<Fam(0, 0, <<1>>), Fam(1, 2, <<3>>), Fam(1, 0, <<2>>)>>,
    <<Fam(0, 0, <<1>>), Fam(1, 0, <<2, 3>>), Fam(2, 3, <<4, 5>>), Fam(2, 0, <<6>>)>>,
    <<Fam(0, 0, <<1>>), Fam(1, 0, <<2, 3>>), Fam(3, 2, <<5, 6>>), Fam(3, 0, <<4>>)>> }

\* databases in which a descendant has a second parent family whose parents
\* are outside the tree or not recorded
OutsideDbs ==
  { <<Fam(0, 0, <<1>>), Fam(1, 0, <<2>>), Fam(5, 6, <<2>>)>>,
    <<Fam(0, 0, <<1>>), Fam(1, 0, <<2, 3>>), Fam(0, 0, <<3>>), Fam(3, 0, <<4>>)>> }

\* a database in which a person is visited as a child and, after its own
\* child was numbered, once more as a grandchild
RevisitDbs ==
  { <<Fam(0, 0, <<1>>), Fam(1, 0, <<3, 2>>), Fam(2, 0, <<3>>), Fam(3, 0, <<4>>)>> }

\* acyclic databases in which the two parents of a family hold a merged
\* code and a plain code of as many segments, or the same code: a child of
\* the center person and of its own child marries a grandchild; one person
\* is both parents of a family; the children of two families of the same
\* couple marry
MergeDbs ==
  { <<Fam(0, 0, <<1>>), Fam(1, 0, <<2>>), Fam(1, 2, <<3>>), Fam(2, 0, <<5>>),
      Fam(3, 5, <<4>>)>>,
    <<Fam(0, 0, <<1>>), Fam(1, 0, <<2>>), Fam(2, 2, <<3>>)>>,
    <<Fam(0, 0, <<1>>), Fam(1, 0, <<2, 3>>), Fam(2, 3, <<4>>), Fam(3, 2, <<5>>),
      Fam(4, 5, <<6>>)>> }

Databases ==
  PoolDbs \cup WideDbs \cup MarriedDbs \cup LoopDbs \cup OutsideDbs \cup RevisitDbs
  \cup MergeDbs

\* the values of the "numbering" option that are tried
Numberings == {"Henry", "Modified Henry", "d'Aboville", "Record", "Register"}

----------------------------------------------------------------------------
VARIABLES
  db,               \* the database (families by handle)
  center,           \* handle of the center person, 0 if the id does not resolve
  numbering,        \* self.numbering
  max_generations,  \* self.max_generations
  pgbrk,            \* self.pgbrk
  listchildren,     \* self.listchildren
  pc,               \* "init", "numbering", "done" (the report object is built),
                    \* "writing", "written", "raised"
  error,            \* name of the exception raised, "" if none
  map,              \* self.map: traversal index -> person handle
  gen_keys,         \* self.gen_keys: list of lists of indices
  dnumber,          \* self.dnumber: person handle -> code
  stack,            \* the active calls of the filters, innermost first
  visits,           \* history: the recorded visits in order
  printed_people_refs,  \* self.printed_people_refs: person handle -> text
  gen_handles,      \* self.gen_handles: person handle -> traversal index
  doc,              \* the entries written to self.doc, in order
  at,               \* write_report's place in its loops: <<generation, key>>
  run,              \* history: 1 for the first report, 2 for the second
  first             \* history: what the first report ended with

vars ==
  <<db, center, numbering, max_generations, pgbrk, listchildren, pc, error,
    map, gen_keys, dnumber, stack, visits,
    printed_people_refs, gen_handles, doc, at, run, first>>

\* the history of the reports run so far
runs == <<run, first>>

inputs == <<db, center, numbering, max_generations, pgbrk, listchildren>>

\* what write_report and write_person write to
writer == <<printed_people_refs, gen_handles, doc, at>>

----------------------------------------------------------------------------
(* Accessors of the database *)

FamilyHandles(d) == 1..Len(d)

\* person.get_family_handle_list(): the families the person is a parent of
get_family_handle_list(d, h) ==
  Ascending({f \in FamilyHandles(d) : d[f].father = h \/ d[f].mother = h})

\* person.get_parent_family_handle_list(): the families the person is a child of
get_parent_family_handle_list(d, h) ==
  Ascending({f \in FamilyHandles(d) :
               \E i \in 1..Len(d[f].children) : d[f].children[i] = h})

\* self.dnumber.get(handle)
DnumGet(dn, h) == IF h \in DOMAIN dn THEN dn[h] ELSE None

----------------------------------------------------------------------------
(* The call stack.  A frame is a call that has run its body and is in its  *)
(* loop over families and children: fi and ci are the positions of the     *)
(* child reference it takes next, index is the loop's ordinal counter.     *)

Frame(fn, h, pid, gen) ==
  [fn |-> fn, h |-> h, pid |-> pid, gen |-> gen, fi |-> 1, ci |-> 1,
   index |-> IF fn = "henry" THEN 0 ELSE 1,
   double_fam |-> FALSE, double_fam_index |-> 1]

\* the position of the next child reference at or after (fi, ci), as
\* <<fi, ci>>; <<0, 0>> when the loops are finished
RECURSIVE NextPos(_, _, _)
NextPos(fams, fi, ci) ==
  IF fi > Len(fams) THEN <<0, 0>>
  ELSE IF ci <= Len(db[fams[fi]].children) THEN <<fi, ci>>
  ELSE NextPos(fams, fi + 1, 1)

FramePos(fr) == NextPos(get_family_handle_list(db, fr.h), fr.fi, fr.ci)

Top == stack[1]

\* a recorded visit: the person, the index and the generation of the call,
\* the code it offers (pid) and, for d'Aboville, the ordinal it was called
\* with and, for each parent family, the <<mother code, father code>> read
\* and the text added to the code
Visit(h, index, pid, gen, child_num, parent_nums, subs) ==
  [h |-> h, index |-> index, pid |-> pid, gen |-> gen,
   child_num |-> child_num, parent_nums |-> parent_nums, subs |-> subs]

----------------------------------------------------------------------------
(* apply_henry_filter *)

\* DepthGuard with the bound off by one
DepthGuard_OffByOne(person_handle, cur_gen) ==
  person_handle = 0 \/ cur_gen > max_generations + 1

\* DepthGuard without the bound on the generation
DepthGuard_HandleOnly(person_handle, cur_gen) == person_handle = 0

\* the guard of the filters: the call returns at once
DepthGuard(person_handle, cur_gen) ==
  person_handle = 0 \/ cur_gen > max_generations

\* HenryRevisit that overwrites the stored code
HenryRevisit_Overwrite(old, pid) == pid

\* the revisit rule of apply_henry_filter
HenryRevisit(old, pid) == IF StrGT(old, pid) THEN pid ELSE old

\* AddToGeneration that appends to the last bucket
AddToGeneration_Last(keys, cur_gen, index) ==
  IF Len(keys) < cur_gen THEN Append(keys, <<index>>)
  ELSE [keys EXCEPT ![Len(keys)] = Append(@, index)]

\* the bookkeeping of gen_keys
AddToGeneration(keys, cur_gen, index) ==
  IF Len(keys) < cur_gen THEN Append(keys, <<index>>)
  ELSE [keys EXCEPT ![cur_gen] = Append(@, index)]

\* NextIndex that leaves a gap
NextIndex_Skip(m) == Max(DOMAIN m) + 2

\* max(self.map) + 1
NextIndex(m) == Max(DOMAIN m) + 1

\* the call apply_henry_filter(person_handle, index, pid, cur_gen) made
\* with the callers' frames rest
ApplyHenryFilter(person_handle, index, pid, cur_gen, rest) ==
  IF DepthGuard(person_handle, cur_gen)
  THEN /\ stack' = rest
       /\ pc' = "numbering"
       /\ UNCHANGED <<map, gen_keys, dnumber, visits, error>>
  ELSE /\ dnumber' =
            IF person_handle \in DOMAIN dnumber
            THEN [dnumber EXCEPT ![person_handle] = HenryRevisit(@, pid)]
            ELSE (person_handle :> pid) @@ dnumber
       /\ map' = (index :> person_handle) @@ map
       /\ gen_keys' = AddToGeneration(gen_keys, cur_gen, index)
       /\ visits' = Append(visits, Visit(person_handle, index, pid, cur_gen,
                                          <<>>, <<>>, <<>>))
       /\ stack' = <<Frame("henry", person_handle, pid, cur_gen)>> \o rest
       /\ pc' = "numbering"
       /\ error' = error

\* the callers' frames after the top frame has taken the child at pos
Advance(pos, index, double_fam, double_fam_index) ==
  <<[Top EXCEPT !.fi = pos[1], !.ci = pos[2] + 1, !.index = index,
                !.double_fam = double_fam,
                !.double_fam_index = double_fam_index]>> \o Tail(stack)

Raise(name) ==
  /\ pc' = "raised"
  /\ error' = name
  /\ stack' = <<>>
  /\ UNCHANGED <<map, gen_keys, dnumber, visits>>

\* HenryChildPid with an index that is not advanced
HenryChildPid_First(pid, index) == pid \o <<HENRY[1]>>

\* pid + HENRY[index]
HenryChildPid(pid, index) == pid \o <<HENRY[index + 1]>>

\* one turn of the child loop of apply_henry_filter
HenryLoop ==
  /\ pc = "numbering"
  /\ stack # <<>>
  /\ Top.fn = "henry"
  /\ FramePos(Top) # <<0, 0>>
  /\ LET pos == FramePos(Top)
         family == db[get_family_handle_list(db, Top.h)[pos[1]]]
         child == family.children[pos[2]]
     IN  IF Top.index >= Len(HENRY)
         THEN Raise("IndexError")
         ELSE ApplyHenryFilter(child, NextIndex(map),
                               HenryChildPid(Top.pid, Top.index),
                               Top.gen + 1,
                               Advance(pos, Top.index + 1, FALSE, 1))
  /\ UNCHANGED <<inputs, runs, writer>>

----------------------------------------------------------------------------
(* apply_mhenry_filter *)

\* the convenience function mhenry()
mhenry(index) ==
  IF index < 10 THEN DecStr(index) ELSE <<"(">> \o DecStr(index) \o <<")">>

\* one turn of the child loop of apply_mhenry_filter: it calls
\* apply_henry_filter
MHenryLoop ==
  /\ pc = "numbering"
  /\ stack # <<>>
  /\ Top.fn = "mhenry"
  /\ FramePos(Top) # <<0, 0>>
  /\ LET pos == FramePos(Top)
         family == db[get_family_handle_list(db, Top.h)[pos[1]]]
         child == family.children[pos[2]]
     IN  ApplyHenryFilter(child, NextIndex(map),
                          Top.pid \o mhenry(Top.index),
                          Top.gen + 1,
                          Advance(pos, Top.index + 1, FALSE, 1))
  /\ UNCHANGED <<inputs, runs, writer>>

\* the call apply_mhenry_filter(person_handle, index, pid, cur_gen)
ApplyMHenryFilter(person_handle, index, pid, cur_gen, rest) ==
  IF DepthGuard(person_handle, cur_gen)
  THEN /\ stack' = rest
       /\ pc' = "numbering"
       /\ UNCHANGED <<map, gen_keys, dnumber, visits, error>>
  ELSE /\ dnumber' = (person_handle :> pid) @@ dnumber
       /\ map' = (index :> person_handle) @@ map
       /\ gen_keys' = AddToGeneration(gen_keys, cur_gen, index)
       /\ visits' = Append(visits, Visit(person_handle, index, pid, cur_gen,
                                          <<>>, <<>>, <<>>))
       /\ stack' = <<Frame("mhenry", person_handle, pid, cur_gen)>> \o rest
       /\ pc' = "numbering"
       /\ error' = error

----------------------------------------------------------------------------
(* apply_daboville_filter: the code of the visited person *)

Letters ==
  <<"a", "b", "c", "d", "e", "f", "g", "h", "i", "j", "k", "l", "m",
    "n", "o", "p", "q", "r", "s", "t", "u", "v", "w", "x", "y", "z">>

\* a local variable that has not been assigned
Unbound == <<"Unbound">>

\* s.split(".") for the positions dots of "." in s
SplitAt(s, dots) ==
  [k \in 1..(Len(dots) + 1) |->
     SubSeq(s, IF k = 1 THEN 1 ELSE dots[k - 1] + 1,
               IF k = Len(dots) + 1 THEN Len(s) ELSE dots[k] - 1)]

\* s.split(".")
Split(s) == SplitAt(s, Ascending({i \in 1..Len(s) : s[i] = "."}))

IsDigit(c) == \E i \in 1..Len(Digits) : Digits[i] = c

\* int(s) succeeds: the segments of codes carry no sign, blank or underscore
IsInt(s) == s # <<>> /\ \A i \in 1..Len(s) : IsDigit(s[i])

\* int(s) for IsInt(s)
RECURSIVE ParseInt(_)
ParseInt(s) ==
  IF s = <<>> THEN 0
  ELSE 10 * ParseInt(SubSeq(s, 1, Len(s) - 1))
       + ((CHOOSE i \in 1..Len(Digits) : Digits[i] = s[Len(s)]) - 1)

\* the result of the choice of first_num and last_num
Ordered(err, first_num, last_num) ==
  [err |-> err, first |-> first_num, last |-> last_num]

\* the segment pairs at which the loop over zip() does not just go on
Stops(ms, fs) ==
  {i \in 1..Len(ms) :
     \/ ~IsInt(ms[i]) \/ ~IsInt(fs[i])
     \/ ParseInt(ms[i]) # ParseInt(fs[i])}

\* the loop over zip() for codes with the same number of segments, decided
\* by the segments m and f of the first such pair
OrderAtStop(mother_num, father_num, prev, m, f) ==
  IF ~IsInt(m) \/ ~IsInt(f)
  THEN Ordered("ValueError", prev[1], prev[2])
  ELSE IF ParseInt(m) < ParseInt(f)
  THEN Ordered("", mother_num, father_num)
  ELSE Ordered("", father_num, mother_num)

\* the branches for two codes, with their segments ms and fs
OrderBySegments(mother_num, father_num, prev, ms, fs, stops) ==
  IF Len(ms) = Len(fs)
  THEN IF stops = {}
       THEN Ordered("", prev[1], prev[2])
       ELSE OrderAtStop(mother_num, father_num, prev,
                        ms[Max({-i : i \in stops}) * (-1)],
                        fs[Max({-i : i \in stops}) * (-1)])
  ELSE IF Len(ms) < Len(fs)
  THEN Ordered("", mother_num, father_num)
  ELSE Ordered("", father_num, mother_num)

\* the choice of first_num and last_num for one parent family; prev is the
\* pair the two variables hold from the parent family before
OrderParents(mother_num, father_num, prev) ==
  IF ~Truthy(mother_num) /\ ~Truthy(father_num)
  THEN Ordered("", mother_num, father_num)
  ELSE IF Truthy(mother_num) /\ ~Truthy(father_num)
  THEN Ordered("", mother_num, father_num)
  ELSE IF Truthy(father_num) /\ ~Truthy(mother_num)
  THEN Ordered("", father_num, mother_num)
  ELSE OrderBySegments(mother_num, father_num, prev,
                       Split(mother_num), Split(father_num),
                       Stops(Split(mother_num), Split(father_num)))

\* the number of leading characters on which a and b agree
CommonLen(a, b) ==
  Max({n \in 0..Len(a) : n <= Len(b) /\ \A j \in 1..n : a[j] = b[j]})

\* the text for two codes that agree on their first n characters and are
\* cut at split_idx
MergeAt(first_num, last_num, child_num, n, split_idx) ==
  SubSeq(first_num, 1, n)
  \o <<"(">> \o SubSeq(first_num, split_idx + 1, Len(first_num))
  \o <<"|">> \o SubSeq(last_num, split_idx + 1, Len(last_num))
  \o <<")", ".">> \o child_num

\* split_idx stays None when zip() ends without a difference, and a slice
\* from None is the whole string
Merge(first_num, last_num, child_num, n) ==
  MergeAt(first_num, last_num, child_num, n,
          IF n < Len(first_num) /\ n < Len(last_num) THEN n ELSE 0)

\* the text added to number for one parent family from first_num and
\* last_num (both bound)
SubCode(first_num, last_num, child_num, cur_gen) ==
  IF Truthy(first_num) /\ Truthy(last_num)
  THEN Merge(first_num, last_num, child_num, CommonLen(first_num, last_num))
  ELSE IF Truthy(first_num)
  THEN first_num \o <<".">> \o child_num
  ELSE IF cur_gen = 1
  THEN child_num
  ELSE <<>>

\* <<mother code, father code>> of a family as the dnumber map dn has them
ParentNums(dn, family) ==
  <<DnumGet(dn, family.mother), DnumGet(dn, family.father)>>

\* what the loop over families_as_child has built: the code, the text of
\* each parent family, first_num and last_num, or the exception raised
Built(err, number, subs, prev) ==
  [err |-> err, number |-> number, subs |-> subs, prev |-> prev]

\* Label without the separator between the parent families
Label_NoSeparator(i) == <<Letters[((i - 1) % 26) + 1], ":", "[">>

\* "a:[", ", b:[", ... for the i-th of several parent families
Label(i) ==
  (IF i > 1 THEN <<",", " ">> ELSE <<>>) \o <<Letters[((i - 1) % 26) + 1], ":", "[">>

\* one turn of the loop over families_as_child, for a choice ord of
\* first_num and last_num
NumberTurn(b, i, single, ord, sub) ==
  IF ord.err # ""
  THEN Built(ord.err, b.number, b.subs, b.prev)
  ELSE IF ord.first = Unbound
  THEN Built("UnboundLocalError", b.number, b.subs, b.prev)
  ELSE Built("",
             b.number \o (IF single THEN <<>> ELSE Label(i)) \o sub
                      \o (IF single THEN <<>> ELSE <<"]">>),
             Append(b.subs, sub), <<ord.first, ord.last>>)

NumberTurnFor(b, i, single, ord, child_num, cur_gen) ==
  NumberTurn(b, i, single, ord, SubCode(ord.first, ord.last, child_num, cur_gen))

\* the loop over families_as_child from its i-th turn on
RECURSIVE NumberFrom(_, _, _, _, _, _)
NumberFrom(dn, fams, i, b, child_num, cur_gen) ==
  IF i > Len(fams) \/ b.err # ""
  THEN b
  ELSE NumberFrom(dn, fams, i + 1,
                  NumberTurnFor(b, i, Len(fams) <= 1,
                                OrderParents(ParentNums(dn, db[fams[i]])[1],
                                             ParentNums(dn, db[fams[i]])[2],
                                             b.prev),
                                child_num, cur_gen),
                  child_num, cur_gen)

\* the closing brace of a code of several parent families
Closed(b, single) ==
  IF b.err # "" \/ single THEN b
  ELSE Built("", b.number \o <<"}">>, b.subs, b.prev)

\* the code apply_daboville_filter computes for a person whose parent
\* families are fams
NumberFor(dn, fams, child_num, cur_gen) ==
  Closed(NumberFrom(dn, fams, 1,
                    Built("", IF Len(fams) <= 1 THEN <<>> ELSE <<"{">>,
                          <<>>, <<Unbound, Unbound>>),
                    child_num, cur_gen),
         Len(fams) <= 1)

DabovilleNumber(dn, person_handle, child_num, cur_gen) ==
  NumberFor(dn, get_parent_family_handle_list(db, person_handle),
            child_num, cur_gen)

----------------------------------------------------------------------------
(* apply_daboville_filter *)

\* the parent codes read for each of the parent families fams
ParentNumsOf(dn, fams) == [i \in 1..Len(fams) |-> ParentNums(dn, db[fams[i]])]

\* the body of apply_daboville_filter with res the code it computes
DabovilleBody(person_handle, index, child_num, cur_gen, rest, res) ==
  /\ map' = (index :> person_handle) @@ map
  /\ gen_keys' = AddToGeneration(gen_keys, cur_gen, index)
  /\ IF res.err # ""
     THEN /\ pc' = "raised"
          /\ error' = res.err
          /\ stack' = <<>>
          /\ UNCHANGED <<dnumber, visits>>
     ELSE /\ dnumber' = (person_handle :> res.number) @@ dnumber
          /\ visits' = Append(visits,
               Visit(person_handle, index, res.number, cur_gen, child_num,
                     ParentNumsOf(dnumber,
                                  get_parent_family_handle_list(db, person_handle)),
                     res.subs))
          /\ stack' = <<Frame("daboville", person_handle, <<>>, cur_gen)>> \o rest
          /\ pc' = "numbering"
          /\ error' = error

\* the call apply_daboville_filter(person_handle, index, child_num, cur_gen)
ApplyDabovilleFilter(person_handle, index, child_num, cur_gen, rest) ==
  IF \/ DepthGuard(person_handle, cur_gen)
     \/ (index \in DOMAIN map /\ map[index] = person_handle)
  THEN /\ stack' = rest
       /\ pc' = "numbering"
       /\ UNCHANGED <<map, gen_keys, dnumber, visits, error>>
  ELSE DabovilleBody(person_handle, index, child_num, cur_gen, rest,
                     DabovilleNumber(dnumber, person_handle, child_num, cur_gen))

\* DabovilleCall with an ordinal counter that every child advances
DabovilleCall_Advance(pos, child, double_fam, double_fam_index) ==
  ApplyDabovilleFilter(
    child, NextIndex(map),
    DecStr(IF double_fam THEN double_fam_index ELSE Top.index),
    Top.gen + 1,
    Advance(pos, Top.index + 1, double_fam,
            IF double_fam THEN double_fam_index + 1 ELSE double_fam_index))

\* the call for the child at pos; double_fam and double_fam_index are the
\* values the loop has for the family of the child
DabovilleCall(pos, child, double_fam, double_fam_index) ==
  ApplyDabovilleFilter(
    child, NextIndex(map),
    DecStr(IF double_fam THEN double_fam_index ELSE Top.index),
    Top.gen + 1,
    Advance(pos,
            IF double_fam THEN Top.index ELSE Top.index + 1,
            double_fam,
            IF double_fam THEN double_fam_index + 1 ELSE double_fam_index))

\* double_fam is set when the loop enters a family (its first child is
\* taken) and kept for the other children; double_fam_index restarts at 1
DabovilleTurn(pos, family) ==
  DabovilleCall(pos, family.children[pos[2]],
                IF pos[2] = 1
                THEN Truthy(ParentNums(dnumber, family)[1])
                     /\ Truthy(ParentNums(dnumber, family)[2])
                ELSE Top.double_fam,
                IF pos[2] = 1 THEN 1 ELSE Top.double_fam_index)

\* the family of the child reference at pos in the loops of the top frame
FamilyAt(pos) == db[get_family_handle_list(db, Top.h)[pos[1]]]

\* one turn of the child loop of apply_daboville_filter
DabovilleLoop ==
  /\ pc = "numbering"
  /\ stack # <<>>
  /\ Top.fn = "daboville"
  /\ FramePos(Top) # <<0, 0>>
  /\ DabovilleTurn(FramePos(Top), FamilyAt(FramePos(Top)))
  /\ UNCHANGED <<inputs, runs, writer>>

----------------------------------------------------------------------------
(* Return of a filter whose loops are finished *)

Return ==
  /\ pc = "numbering"
  /\ stack # <<>>
  /\ FramePos(Top) = <<0, 0>>
  /\ stack' = Tail(stack)
  /\ UNCHANGED <<inputs, runs, writer, pc, error, map, gen_keys, dnumber, visits>>

\* __init__ goes on after the filter has returned
Numbered ==
  /\ pc = "numbering"
  /\ stack = <<>>
  /\ pc' = "done"
  /\ UNCHANGED <<inputs, runs, writer, error, map, gen_keys, dnumber, stack, visits>>

----------------------------------------------------------------------------
(* __init__ *)

Init ==
  /\ db \in Databases
  /\ center \in {0, 1}
  /\ numbering \in Numberings
  /\ max_generations \in 1..MaxGen
  /\ pgbrk \in BOOLEAN
  /\ listchildren \in BOOLEAN
  /\ pc = "init"
  /\ error = ""
  /\ map = <<>>
  /\ gen_keys = <<>>
  /\ dnumber = <<>>
  /\ stack = <<>>
  /\ visits = <<>>
  /\ printed_people_refs = <<>>
  /\ gen_handles = <<>>
  /\ doc = <<>>
  /\ at = <<0, 0>>
  /\ run = 1
  /\ first = <<>>

\* NoCenterPerson with the numbering option looked at first
NoCenterPerson_AfterDispatch ==
  /\ pc = "init"
  /\ center = 0
  /\ IF numbering \in {"Henry", "Modified Henry", "d'Aboville"}
     THEN Raise("ReportError")
     ELSE Raise("AttributeError")
  /\ UNCHANGED <<inputs, runs, writer>>

\* the center person is not in the database
NoCenterPerson ==
  /\ pc = "init"
  /\ center = 0
  /\ Raise("ReportError")
  /\ UNCHANGED <<inputs, runs, writer>>

StartHenry ==
  /\ pc = "init"
  /\ center # 0
  /\ numbering = "Henry"
  /\ ApplyHenryFilter(center, 1, <<"1">>, 1, <<>>)
  /\ UNCHANGED <<inputs, runs, writer>>

StartMHenry ==
  /\ pc = "init"
  /\ center # 0
  /\ numbering = "Modified Henry"
  /\ ApplyMHenryFilter(center, 1, <<"1">>, 1, <<>>)
  /\ UNCHANGED <<inputs, runs, writer>>

StartDaboville ==
  /\ pc = "init"
  /\ center # 0
  /\ numbering = "d'Aboville"
  /\ ApplyDabovilleFilter(center, 1, <<"1">>, 1, <<>>)
  /\ UNCHANGED <<inputs, runs, writer>>

\* NoSuchNumbering that falls back to Henry numbering
NoSuchNumbering_DefaultsToHenry ==
  /\ pc = "init"
  /\ center # 0
  /\ numbering \notin {"Henry", "Modified Henry", "d'Aboville"}
  /\ ApplyHenryFilter(center, 1, <<"1">>, 1, <<>>)
  /\ UNCHANGED <<inputs, runs, writer>>

\* any other value of the option
NoSuchNumbering ==
  /\ pc = "init"
  /\ center # 0
  /\ numbering \notin {"Henry", "Modified Henry", "d'Aboville"}
  /\ Raise("AttributeError")
  /\ UNCHANGED <<inputs, runs, writer>>

----------------------------------------------------------------------------
(* The document.  doc holds the entries the report writes, in order; an    *)
(* entry is the call that writes it, the person (or generation) it is      *)
(* about and the code or reference text it shows.  Names, dates, notes,    *)
(* styles and page breaks come from the database and the document layer    *)
(* and are left out.                                                       *)

Event(kind, h, text) == [kind |-> kind, h |-> h, text |-> text]

\* the printed references, the document and the exception raised so far
Written(refs, d, err) == [refs |-> refs, doc |-> d, err |-> err]

\* self.doc gets one more entry
Out(st, e) == Written(st.refs, Append(st.doc, e), st.err)

\* the assignment that forgets the references recorded before
Ref_Replace(st, h, text) == Written((h :> text), st.doc, st.err)

\* self.printed_people_refs[h] = text
Ref(st, h, text) == Written((h :> text) @@ st.refs, st.doc, st.err)

\* display_name_tweaker(person): the name shown for the person h
Name(h) == <<"p">> \o DecStr(h)

\* utils.find_spouse(person, family)
find_spouse(h, family) ==
  IF h = family.father THEN family.mother ELSE family.father

\* display_num of print_person
DisplayNum(h) ==
  IF Truthy(DnumGet(dnumber, h)) THEN DnumGet(dnumber, h) \o <<" ">> ELSE <<>>

\* print_person(person, first_gen): the main entry of a person, with the
\* details in the first generation
PrintPerson(st, h, first_gen) ==
  IF first_gen
  THEN Out(Out(st, Event("person", h, DisplayNum(h))), Event("details", h, <<>>))
  ELSE Out(st, Event("person", h, DisplayNum(h)))

\* print_person(child, main_entry=False): the line of a child in a table
PrintChild(st, h) == Out(st, Event("child_person", h, <<>>))

\* print_spouse(spouse_handle, family)
print_spouse(st, spouse_handle) ==
  IF spouse_handle # 0
  THEN Out(st, Event("spouse", spouse_handle, DisplayNum(spouse_handle)))
  ELSE st

\* print_reference(person, display_num, style, is_spouse=True)
print_reference(st, h, display_num) ==
  Out(st, Event("reference", h, display_num))

\* print_reference(..., is_individual_ref=True)
print_individual_reference(st, h, display_num) ==
  Out(st, Event("individual_reference", h, display_num))

\* "= of: {} {}".format(code, name)
SpouseNum(code, name) ==
  <<"=", " ", "o", "f", ":", " ">> \o code \o <<" ">> \o name

\* some family of h has a child reference
HasChildren(h) ==
  \E f \in FamilyHandles(db) :
    (db[f].father = h \/ db[f].mother = h) /\ db[f].children # <<>>

----------------------------------------------------------------------------
(* __write_children *)

\* an exception leaves the method
Failed(st, name) == Written(st.refs, st.doc, name)

\* the spouse sh of one family of a child without children; the code of
\* the child is looked up with self.dnumber[child.handle]
ChildSpouse(st, child, sh, person) ==
  IF st.err # "" THEN st
  ELSE IF sh \in DOMAIN st.refs
  THEN print_reference(st, sh, st.refs[sh])
  ELSE IF sh # 0 /\ sh \notin DOMAIN dnumber
  THEN IF child \notin DOMAIN dnumber
       THEN Failed(print_spouse(st, sh), "KeyError")
       ELSE Ref(print_spouse(st, sh), sh, SpouseNum(dnumber[child], Name(person)))
  ELSE print_spouse(st, sh)

\* the loop over the families of a child from its i-th turn on
RECURSIVE ChildFamiliesFrom(_, _, _, _, _)
ChildFamiliesFrom(st, child, fams, i, person) ==
  IF i > Len(fams) THEN st
  ELSE ChildFamiliesFrom(
         ChildSpouse(st, child, find_spouse(child, db[fams[i]]), person),
         child, fams, i + 1, person)

\* the number cell of the row of a child
ChildCell(child) ==
  Event("child", child,
        (IF HasChildren(child) THEN <<"+", " ">> ELSE <<>>)
        \o (IF child \in DOMAIN dnumber THEN dnumber[child] ELSE <<>>))

\* the row of one child: a child with children gets its name only, a
\* child without gets its line and its spouses
ChildRow(st, child, person) ==
  IF st.err # "" THEN st
  ELSE IF HasChildren(child)
  THEN Out(Out(st, ChildCell(child)), Event("child_name", child, <<>>))
  ELSE ChildFamiliesFrom(PrintChild(Out(st, ChildCell(child)), child),
                         child, get_family_handle_list(db, child), 1, person)

\* the loop over the child references from its i-th turn on
RECURSIVE ChildRowsFrom(_, _, _, _)
ChildRowsFrom(st, children, i, person) ==
  IF i > Len(children) THEN st
  ELSE ChildRowsFrom(ChildRow(st, children[i], person), children, i + 1, person)

\* __write_children(family, person) for the family with handle f
WriteChildren(st, f, person) ==
  IF db[f].children = <<>> THEN st
  ELSE ChildRowsFrom(Out(st, Event("children", person, <<>>)),
                     db[f].children, 1, person)

----------------------------------------------------------------------------
(* write_person *)

\* the child table, if the option asks for it
ListChildren(st, f, person) ==
  IF listchildren THEN WriteChildren(st, f, person) ELSE st

\* a spouse that is not in printed_people_refs: the entry, the reference
\* kept for a spouse without a code, the child table
NewSpouse(st, person, f, sh) ==
  ListChildren(
    IF sh # 0 /\ sh \notin DOMAIN dnumber
    THEN Ref(st, sh, SpouseNum(dnumber[person], Name(person)))
    ELSE st,
    f, person)

\* one turn of the loop over the families of the person
WriteFamily(st, person, f, sh) ==
  IF st.err # "" THEN st
  ELSE IF sh \in DOMAIN st.refs
  THEN print_reference(st, sh, st.refs[sh])
  ELSE NewSpouse(IF Truthy(DnumGet(dnumber, sh))
                 THEN print_individual_reference(st, sh, DnumGet(dnumber, sh))
                 ELSE print_spouse(st, sh),
                 person, f, sh)

RECURSIVE FamiliesFrom(_, _, _, _)
FamiliesFrom(st, person, fams, i) ==
  IF i > Len(fams) THEN st
  ELSE FamiliesFrom(
         WriteFamily(st, person, fams[i], find_spouse(person, db[fams[i]])),
         person, fams, i + 1)

\* the entry is left out: no descendants and not the first person
SkipPerson(h) == dnumber[h] # <<"1">> /\ ~HasChildren(h)

\* a person is written once
FirstEntry(refs, h) == h \notin DOMAIN refs

\* write_person(key, first_gen) for the person h at key
write_person(st, h, first_gen) ==
  IF SkipPerson(h) THEN st
  ELSE IF ~FirstEntry(st.refs, h) THEN st
  ELSE FamiliesFrom(PrintPerson(Ref(st, h, dnumber[h]), h, first_gen),
                    h, get_family_handle_list(db, h), 1)

----------------------------------------------------------------------------
(* write_report *)

\* the title
StartReport ==
  /\ pc = "done"
  /\ pc' = "writing"
  /\ doc' = Append(doc, Event("title", center, <<>>))
  /\ at' = <<1, 0>>
  /\ UNCHANGED <<inputs, runs, error, map, gen_keys, dnumber, stack, visits,
                 printed_people_refs, gen_handles>>

\* nobody of the generation with the indices keys has a child
EmptyGeneration(keys) ==
  ~\E k \in 1..Len(keys) : HasChildren(map[keys[k]])

\* the page break in front of a generation after the first and the heading
\* of the generation
Heading(g) ==
  (IF pgbrk /\ g > 1 THEN <<Event("page_break", g, <<>>)>> ELSE <<>>)
  \o <<Event("generation", g, <<>>)>>

\* the heading of a generation; a later generation without children gets
\* a note and no entries
WriteGeneration ==
  /\ pc = "writing"
  /\ at[2] = 0
  /\ at[1] <= Len(gen_keys)
  /\ IF at[1] > 1 /\ EmptyGeneration(gen_keys[at[1]])
     THEN /\ doc' = doc \o Heading(at[1]) \o <<Event("no_children", at[1], <<>>)>>
          /\ at' = <<at[1] + 1, 0>>
     ELSE /\ doc' = doc \o Heading(at[1])
          /\ at' = <<at[1], 1>>
  /\ UNCHANGED <<inputs, runs, pc, error, map, gen_keys, dnumber, stack, visits,
                 printed_people_refs, gen_handles>>

\* NextKey that leaves a generation after its first key
NextKey_FirstOnly(g, k) == <<g + 1, 0>>

\* the next key of write_report's loops after the k-th of generation g
NextKey(g, k) == IF k < Len(gen_keys[g]) THEN <<g, k + 1>> ELSE <<g + 1, 0>>

\* one turn of the loop over the keys of a generation, res being what
\* write_person has written
WriteKey(key, res) ==
  /\ gen_handles' = (map[key] :> key) @@ gen_handles
  /\ printed_people_refs' = res.refs
  /\ doc' = res.doc
  /\ IF res.err # ""
     THEN /\ pc' = "raised"
          /\ error' = res.err
          /\ at' = at
     ELSE /\ pc' = pc
          /\ error' = error
          /\ at' = NextKey(at[1], at[2])

WritePerson ==
  /\ pc = "writing"
  /\ at[2] > 0
  /\ WriteKey(gen_keys[at[1]][at[2]],
              write_person(Written(printed_people_refs, doc, ""),
                           map[gen_keys[at[1]][at[2]]], at[1] = 1))
  /\ UNCHANGED <<inputs, runs, map, gen_keys, dnumber, stack, visits>>

\* write_report returns
EndReport ==
  /\ pc = "writing"
  /\ at = <<Len(gen_keys) + 1, 0>>
  /\ pc' = "written"
  /\ UNCHANGED <<inputs, runs, writer, error, map, gen_keys, dnumber, stack, visits>>

\* the message of the exception __init__ has raised, in its parts; "pid" is
\* the id that did not resolve
Message ==
  IF error = "ReportError"
  THEN <<"Person ", "pid", " is not in the Database">>
  ELSE IF error = "AttributeError"
  THEN <<"no such numbering: '", numbering, "'">>
  ELSE <<>>

Next ==
  \/ NoCenterPerson
  \/ StartHenry
  \/ StartMHenry
  \/ StartDaboville
  \/ NoSuchNumbering
  \/ HenryLoop
  \/ MHenryLoop
  \/ DabovilleLoop
  \/ Return
  \/ Numbered
  \/ StartReport
  \/ WriteGeneration
  \/ WritePerson
  \/ EndReport

Spec == Init /\ [][Next]_vars

----------------------------------------------------------------------------
(* A second report with the same options on the same database.  Every      *)
(* report is a new object: Report.__init__ gives it a new document and     *)
(* __init__ sets its attributes.                                           *)

\* largest number of pool families in a database that is reported twice
MaxRerunFamilies == 2

RerunDbs ==
  {d \in PoolDbs : Len(d) <= MaxRerunFamilies} \cup WideDbs \cup MarriedDbs

\* the attributes __init__ sets before it numbers, old being those of the
\* report before
NewReport_KeepRefs(old) ==
  [map |-> <<>>, printed_people_refs |-> old.printed_people_refs,
   gen_handles |-> <<>>, gen_keys |-> <<>>, dnumber |-> <<>>]

NewReport(old) ==
  [map |-> <<>>, printed_people_refs |-> <<>>,
   gen_handles |-> <<>>, gen_keys |-> <<>>, dnumber |-> <<>>]

\* what a report ends with
Outcome ==
  [pc |-> pc, error |-> error, map |-> map, gen_keys |-> gen_keys,
   dnumber |-> dnumber, doc |-> doc]

\* the attributes of the report object
Attributes ==
  [map |-> map, printed_people_refs |-> printed_people_refs,
   gen_handles |-> gen_handles, gen_keys |-> gen_keys, dnumber |-> dnumber]

Construct(new) ==
  /\ map' = new.map
  /\ printed_people_refs' = new.printed_people_refs
  /\ gen_handles' = new.gen_handles
  /\ gen_keys' = new.gen_keys
  /\ dnumber' = new.dnumber

\* the report has ended, with the document or with an exception, and is
\* made once more
Rerun ==
  /\ run = 1
  /\ pc \in {"written", "raised"}
  /\ first' = Outcome
  /\ run' = 2
  /\ Construct(NewReport(Attributes))
  /\ pc' = "init"
  /\ error' = ""
  /\ stack' = <<>>
  /\ visits' = <<>>
  /\ doc' = <<>>
  /\ at' = <<0, 0>>
  /\ UNCHANGED inputs

InitTwice == Init /\ db \in RerunDbs

NextTwice == Next \/ Rerun

SpecTwice == InitTwice /\ [][NextTwice]_vars

----------------------------------------------------------------------------
(* Notions the properties are stated with *)

\* the child references of the families of h, in the order of the traversal
RECURSIVE ChildRefsFrom(_, _)
ChildRefsFrom(fams, i) ==
  IF i > Len(fams) THEN <<>>
  ELSE db[fams[i]].children \o ChildRefsFrom(fams, i + 1)

ChildRefs(h) == ChildRefsFrom(get_family_handle_list(db, h), 1)

\* the persons visited from h at generation gen on, in depth-first pre-order
RECURSIVE PreOrder(_, _)
PreOrder(h, gen) ==
  IF gen > max_generations THEN <<>>
  ELSE LET refs == ChildRefs(h)
           sub[i \in 0..Len(refs)] ==
             IF i = 0 THEN <<>> ELSE sub[i - 1] \o PreOrder(refs[i], gen + 1)
       IN  <<h>> \o sub[Len(refs)]

\* the handles of the persons of the database
Persons ==
  ( {center} \cup
    UNION { {db[f].father, db[f].mother}
            \cup {db[f].children[i] : i \in 1..Len(db[f].children)} :
            f \in FamilyHandles(db) } ) \ {0}

\* the persons reached from the persons in S by n or fewer child references
RECURSIVE Within(_, _)
Within(S, n) ==
  IF n = 0 THEN S
  ELSE LET T == S \cup UNION { {ChildRefs(h)[i] : i \in 1..Len(ChildRefs(h))} : h \in S }
       IN  IF T = S THEN S ELSE Within(T, n - 1)

Descendants(h) ==
  Within({ChildRefs(h)[i] : i \in 1..Len(ChildRefs(h))}, Cardinality(Persons))

Acyclic == \A h \in Persons : h \notin Descendants(h)

\* the persons that are father or mother of a family that lists h
Parents(h) ==
  { q \in Persons : \E i \in 1..Len(ChildRefs(q)) : ChildRefs(q)[i] = h }

Finished == pc = "done"

----------------------------------------------------------------------------
(* C1: after numbering the center person holds the seed code "1", under    *)
(* every scheme and whatever its parent families are.                      *)
C1_RootHoldsSeed ==
  Finished => (center \in DOMAIN dnumber /\ dnumber[center] = <<"1">>)

----------------------------------------------------------------------------
(* C2: the indices number the visits in depth-first pre-order.  In every   *)
(* state the keys of map are 1..n without a gap and the k-th recorded      *)
(* visit holds index k; after numbering, map is the pre-order list of the  *)
(* visits within the generation bound (families in stored order, children  *)
(* in list order), a person visited twice holding two indices.             *)
C2_PreOrderIndices ==
  /\ DOMAIN map = 1..Cardinality(DOMAIN map)
  /\ \A k \in 1..Len(visits) :
       visits[k].index = k /\ k \in DOMAIN map /\ map[k] = visits[k].h
  /\ Finished =>
       LET order == PreOrder(center, 1)
       IN  /\ DOMAIN map = 1..Len(order)
           /\ \A k \in 1..Len(order) : map[k] = order[k]

\* numbering has finished and some person holds two indices
C2_Witness ==
  /\ Finished
  /\ \E i, j \in DOMAIN map : i < j /\ map[i] = map[j]
  /\ Cardinality(DOMAIN map) >= 5

----------------------------------------------------------------------------
(* C3: in every state the generation buckets partition the indices of map: *)
(* each index is in exactly one bucket, once; the index of a visit made at *)
(* generation g is in bucket g; no bucket is empty; the indices of a       *)
(* bucket increase.  A center person with exactly two children, Henry and  *)
(* max_generations = 2 give map {1:R, 2:C1, 3:C2}, codes "1", "11", "12"   *)
(* and buckets [[1],[2,3]].                                                *)
Slots == { <<g, i>> \in (1..Len(gen_keys)) \X (1..Cardinality(DOMAIN map)) :
             i <= Len(gen_keys[g]) }

C3_BucketsPartition ==
  /\ \A sl \in Slots : gen_keys[sl[1]][sl[2]] \in DOMAIN map
  /\ \A k \in DOMAIN map :
       Cardinality({sl \in Slots : gen_keys[sl[1]][sl[2]] = k}) = 1
  /\ \A g \in 1..Len(gen_keys) :
       /\ gen_keys[g] # <<>>
       /\ Len(gen_keys[g]) <= Cardinality(DOMAIN map)
       /\ \A i \in 1..(Len(gen_keys[g]) - 1) : gen_keys[g][i] < gen_keys[g][i + 1]
  /\ \A k \in 1..Len(visits) :
       /\ visits[k].gen <= Len(gen_keys)
       /\ \E i \in 1..Len(gen_keys[visits[k].gen]) :
            gen_keys[visits[k].gen][i] = visits[k].index
  /\ ( /\ Finished
       /\ numbering = "Henry"
       /\ max_generations = 2
       /\ Len(ChildRefs(center)) = 2
       /\ Cardinality({center, ChildRefs(center)[1], ChildRefs(center)[2]}) = 3 )
     => LET C1 == ChildRefs(center)[1]
            C2 == ChildRefs(center)[2]
        IN  /\ map = <<center, C1, C2>>
            /\ dnumber = (center :> <<"1">>) @@ (C1 :> <<"1", "1">>)
                          @@ (C2 :> <<"1", "2">>)
            /\ gen_keys = <<<<1>>, <<2, 3>>>>

\* numbering has finished with three buckets, one of them with two indices
\* that are not neighbours
C3_Witness ==
  /\ Finished
  /\ Len(gen_keys) >= 3
  /\ \E g \in 1..Len(gen_keys) :
       \E i \in 1..(Len(gen_keys[g]) - 1) : gen_keys[g][i] + 1 < gen_keys[g][i + 1]

----------------------------------------------------------------------------
(* C4: no visit beyond max_generations is recorded: every index, code and  *)
(* bucket slot belongs to a visit at a generation within the bound, there  *)
(* are at most max_generations buckets, and max_generations = 1 leaves     *)
(* map {1: center}, buckets [[1]] and no code for a child of the center    *)
(* person.                                                                 *)
C4_DepthBound ==
  /\ \A k \in 1..Len(visits) : visits[k].gen <= max_generations
  /\ Len(gen_keys) <= max_generations
  /\ DOMAIN dnumber = {visits[k].h : k \in 1..Len(visits)}
  /\ pc # "raised" => DOMAIN map = 1..Len(visits)
  /\ Finished =>
       Cardinality(DOMAIN map) = Len(PreOrder(center, 1))
  /\ (Finished /\ max_generations = 1) =>
       /\ map = <<center>>
       /\ gen_keys = <<<<1>>>>
       /\ DOMAIN dnumber = {center}

\* numbering has finished at max_generations = 1 for a center person that
\* has children
C4_Witness ==
  /\ Finished
  /\ max_generations = 1
  /\ ChildRefs(center) # <<>>

----------------------------------------------------------------------------
(* C5: under Henry, after numbering, the code of every numbered person     *)
(* other than the center person is the final code of one of its numbered   *)
(* parents followed by one symbol of HENRY (acyclic databases).            *)
C5_ChildExtendsParent ==
  (Finished /\ numbering = "Henry" /\ Acyclic) =>
    \A p \in DOMAIN dnumber \ {center} :
      \E q \in Parents(p) \cap DOMAIN dnumber :
        \E i \in 1..Len(HENRY) : dnumber[p] = dnumber[q] \o <<HENRY[i]>>

----------------------------------------------------------------------------
(* C6: under Henry, in an acyclic database where nobody has more children  *)
(* than HENRY has symbols, two visits of different persons are never       *)
(* offered the same code, and after numbering two different persons never  *)
(* hold the same code.                                                     *)
C6_DistinctCodes ==
  ( /\ numbering = "Henry"
    /\ Acyclic
    /\ \A h \in Persons : Len(ChildRefs(h)) <= Len(HENRY) )
  => /\ \A i, j \in 1..Len(visits) :
          visits[i].h # visits[j].h => visits[i].pid # visits[j].pid
     /\ Finished =>
          \A p, q \in DOMAIN dnumber : p # q => dnumber[p] # dnumber[q]

\* Henry has numbered an acyclic database with four or more persons, one of
\* them visited twice
C6_Witness ==
  /\ Finished
  /\ numbering = "Henry"
  /\ Acyclic
  /\ Cardinality(DOMAIN dnumber) >= 4
  /\ \E i, j \in DOMAIN map : i < j /\ map[i] = map[j]

----------------------------------------------------------------------------
(* C7: under Henry a person holds, in every state, the smallest (in string *)
(* order) of the codes its visits have offered so far: a later visit with  *)
(* a larger code changes nothing, one with a smaller code replaces it.     *)
Offered(p) == {visits[k].pid : k \in {j \in 1..Len(visits) : visits[j].h = p}}

Smallest(S) == CHOOSE c \in S : \A d \in S : c = d \/ StrLT(c, d)

C7_KeepsSmallest ==
  numbering = "Henry" =>
    \A p \in DOMAIN dnumber : dnumber[p] = Smallest(Offered(p))

\* Henry has visited some person with two different codes
C7_Witness ==
  /\ Finished
  /\ numbering = "Henry"
  /\ \E p \in DOMAIN dnumber : Cardinality(Offered(p)) >= 2

----------------------------------------------------------------------------
(* C8: under Modified Henry the child with sibling ordinal n gets the code *)
(* of its parent followed by the digit n when n <= 9 and by "(n)" when     *)
(* n >= 10, at every generation.  A call that has just been made is the    *)
(* top frame, its caller the frame below.                                  *)

\* the number of child references the loops of a frame have taken
RECURSIVE TakenFrom(_, _, _)
TakenFrom(fams, fi, i) ==
  IF i >= fi \/ i > Len(fams) THEN 0
  ELSE Len(db[fams[i]].children) + TakenFrom(fams, fi, i + 1)

Taken(fr) == TakenFrom(get_family_handle_list(db, fr.h), fr.fi, 1) + fr.ci - 1

C8_MHenrySymbols ==
  ( /\ numbering = "Modified Henry"
    /\ pc = "numbering"
    /\ Len(stack) >= 2
    /\ Taken(Top) = 0 )
  => LET n == Taken(stack[2])
     IN  Top.pid = stack[2].pid
                   \o (IF n <= 9 THEN DecStr(n)
                       ELSE <<"(">> \o DecStr(n) \o <<")">>)

----------------------------------------------------------------------------
(* C9: under d'Aboville the code of a numbered person that descends from   *)
(* the center person by one path only and has at most one parent family    *)
(* has as many dot-separated segments as the person's generation.          *)

\* the number of paths of child references from h to target that are not
\* longer than depth
RECURSIVE PathCount(_, _, _)
PathCount(h, target, depth) ==
  LET refs == ChildRefs(h)
      sum[i \in 0..Len(refs)] ==
        IF i = 0 THEN 0 ELSE sum[i - 1] + PathCount(refs[i], target, depth - 1)
  IN  (IF h = target THEN 1 ELSE 0) + (IF depth = 0 THEN 0 ELSE sum[Len(refs)])

SinglyRelated(p) == PathCount(center, p, Cardinality(Persons)) = 1

C9_SegmentsEqualGeneration ==
  (numbering = "d'Aboville" /\ Finished) =>
    \A k \in 1..Len(visits) :
      LET p == visits[k].h
      IN  (SinglyRelated(p) /\ Len(get_parent_family_handle_list(db, p)) <= 1)
          => Len(Split(dnumber[p])) = visits[k].gen

----------------------------------------------------------------------------
(* C10: under d'Aboville, when both parents of a parent family hold codes, *)
(* the text for that family is the leading dot-segments the two codes      *)
(* share, then "(", the two remaining suffixes in sorted order joined by   *)
(* "|", then ")", "." and the child ordinal.                               *)

\* the segments segs[from..] joined by "."
RECURSIVE JoinFrom(_, _)
JoinFrom(segs, from) ==
  IF from > Len(segs) THEN <<>>
  ELSE IF from = Len(segs) THEN segs[from]
  ELSE segs[from] \o <<".">> \o JoinFrom(segs, from + 1)

ClaimedMerge(a, b, child_num) ==
  LET as == Split(a)
      bs == Split(b)
      n == Max({m \in 0..Len(as) : m <= Len(bs) /\ \A j \in 1..m : as[j] = bs[j]})
      prefix == IF n = 0 THEN <<>> ELSE JoinFrom(SubSeq(as, 1, n), 1) \o <<".">>
      sa == JoinFrom(as, n + 1)
      sb == JoinFrom(bs, n + 1)
      lo == IF StrLT(sb, sa) THEN sb ELSE sa
      hi == IF StrLT(sb, sa) THEN sa ELSE sb
  IN  prefix \o <<"(">> \o lo \o <<"|">> \o hi \o <<")", ".">> \o child_num

C10_MergedSubCode ==
  numbering = "d'Aboville" =>
    \A k \in 1..Len(visits) :
      \A i \in 1..Len(visits[k].subs) :
        LET nums == visits[k].parent_nums[i]
        IN  (Truthy(nums[1]) /\ Truthy(nums[2]))
            => visits[k].subs[i] = ClaimedMerge(nums[1], nums[2], visits[k].child_num)

----------------------------------------------------------------------------
(* C11: under d'Aboville the ordinal given to a child is the child's       *)
(* 1-based position in the child list of its own family: each call of the  *)
(* child loop that records a visit passes the position of the child        *)
(* reference within its family as child_num, so the ordinal restarts at 1  *)
(* for every family the parent heads.                                      *)
C11_OrdinalWithinFamily ==
  [][ ( /\ pc = "numbering"
        /\ stack # <<>>
        /\ Top.fn = "daboville"
        /\ Len(visits') = Len(visits) + 1 )
      => visits'[Len(visits')].child_num = DecStr(FramePos(Top)[2]) ]_vars

----------------------------------------------------------------------------
(* C12: the Record scheme is accepted and numbers the persons of the       *)
(* bounded tree 1, 2, 3, ... in the order of the generation buckets, each  *)
(* person once.                                                            *)

\* the indices of the buckets bs one generation after the other
RECURSIVE BucketOrder(_)
BucketOrder(bs) ==
  IF bs = <<>> THEN <<>> ELSE bs[1] \o BucketOrder(Tail(bs))

\* the number of distinct persons at the first k indices of the order ks
RecordRank(ks, k) == Cardinality({map[ks[j]] : j \in 1..k})

C12_RecordNumbers ==
  (numbering = "Record" /\ center # 0 /\ pc # "init")
  => /\ pc # "raised"
     /\ Finished =>
          \A k \in 1..Len(BucketOrder(gen_keys)) :
            LET h == map[BucketOrder(gen_keys)[k]]
            IN  /\ h \in DOMAIN dnumber
                /\ (\A j \in 1..(k - 1) : map[BucketOrder(gen_keys)[j]] # h)
                   => dnumber[h] = DecStr(RecordRank(BucketOrder(gen_keys), k))

----------------------------------------------------------------------------
(* C13: a second report with the same options on the same database ends    *)
(* as the first did: the same exception if any, the same index map,        *)
(* generation buckets, dnumber map and document; and every report starts   *)
(* with empty index map, buckets, dnumber map, printed references and      *)
(* document.                                                               *)
C13_SameBothTimes ==
  /\ (run = 2 /\ pc \in {"written", "raised"}) => Outcome = first
  /\ pc = "init" =>
       /\ Attributes = NewReport(Attributes)
       /\ doc = <<>>

\* a second report is written, with entries for persons and for a spouse
C13_Witness ==
  /\ run = 2
  /\ pc = "written"
  /\ Cardinality(DOMAIN printed_people_refs) > 1
  /\ \E i \in 1..Len(doc) : doc[i].kind = "reference"

----------------------------------------------------------------------------
(* C14: numbering terminates, with the report object built or with an      *)
(* exception, for every database, cyclic ones included, and every          *)
(* max_generations: while it runs, a call returns, a loop takes its next   *)
(* child or __init__ goes on, and every such step lowers a natural         *)
(* number, the work left.  The calls that are active at any time are at generations    *)
(* 1, 2, ... in the order they were made, so there are never more than     *)
(* max_generations of them, and no visit is recorded beyond                *)
(* max_generations.                                                        *)

\* the child references a call has not taken yet, and its return
Remaining(fr) ==
  LET fams == get_family_handle_list(db, fr.h)
      left[j \in 0..Len(fams)] ==
        IF j = 0 THEN 0
        ELSE left[j - 1]
             + (IF j < fr.fi THEN 0
                ELSE IF j = fr.fi
                THEN Max({0, Len(db[fams[j]].children) - fr.ci + 1})
                ELSE Len(db[fams[j]].children))
  IN  1 + left[Len(fams)]

\* more than any call has to do
Weight == 2 + Max({Len(ChildRefs(h)) : h \in Persons})

\* the work left: a call at a generation counts more than everything a
\* call one generation deeper can have left
RECURSIVE WorkLeft(_, _)
WorkLeft(st, i) ==
  IF i > Len(st) THEN 0
  ELSE Remaining(st[i]) * Weight ^ (max_generations - st[i].gen)
       + WorkLeft(st, i + 1)

C14_NumberingTerminates ==
  /\ [][ (pc = "numbering" /\ pc' = "numbering")
         => WorkLeft(stack', 1) < WorkLeft(stack, 1) ]_vars
  /\ [](pc = "numbering" =>
          \/ stack = <<>>
          \/ FramePos(Top) = <<0, 0>>
          \/ Top.fn \in {"henry", "mhenry", "daboville"})
  /\ [](/\ Len(stack) <= max_generations
        /\ \A i \in 1..Len(stack) : stack[i].gen = Len(stack) - i + 1
        /\ \A k \in 1..Len(visits) : visits[k].gen \in 1..max_generations)

\* numbering has finished on a database in which a person is its own
\* descendant, and has gone as deep as the bound allows
C14_Witness ==
  /\ Finished
  /\ ~Acyclic
  /\ max_generations = MaxGen
  /\ Len(gen_keys) = max_generations

----------------------------------------------------------------------------
(* C15: when the id of the center person does not resolve, the report      *)
(* fails with ReportError and nothing else happens: no call of a filter,   *)
(* no visit, the index map, the buckets and the dnumber map are empty and  *)
(* the document has no entry, whatever the numbering option is.            *)
C15_MissingCenterPerson ==
  (center = 0 /\ pc # "init")
  => /\ pc = "raised"
     /\ error = "ReportError"
     /\ stack = <<>>
     /\ visits = <<>>
     /\ map = <<>>
     /\ gen_keys = <<>>
     /\ dnumber = <<>>
     /\ doc = <<>>

\* the report has failed for a missing center person although the
\* numbering option has no scheme either
C15_Witness ==
  /\ center = 0
  /\ pc = "raised"
  /\ numbering = "Record"

----------------------------------------------------------------------------
(* C16: when the numbering option is none of the names of a scheme, the    *)
(* report fails at once with an exception whose message has the value of   *)
(* the option in it; nobody is visited, the index map, the buckets and     *)
(* the dnumber map stay empty and the document has no entry.               *)

\* the names of the numbering schemes
SchemeNames == {"Henry", "Modified Henry", "d'Aboville", "Record"}

\* the report has failed for the numbering option and has done nothing
RejectedNumbering ==
  /\ pc = "raised"
  /\ \E i \in 1..Len(Message) : Message[i] = numbering
  /\ stack = <<>>
  /\ visits = <<>>
  /\ map = <<>>
  /\ gen_keys = <<>>
  /\ dnumber = <<>>
  /\ doc = <<>>

\* the claim as it is made: for every center person
C16_UnknownNumbering ==
  (numbering \notin SchemeNames /\ pc # "init") => RejectedNumbering

\* the claim for a center person that is in the database
C16_UnknownNumberingOfPerson ==
  (numbering \notin SchemeNames /\ center # 0 /\ pc # "init")
  => (RejectedNumbering /\ error = "AttributeError")

C16_Witness ==
  /\ numbering \notin SchemeNames
  /\ center # 0
  /\ pc = "raised"

----------------------------------------------------------------------------
(* C17: write_person leaves out the entry of a person exactly when the     *)
(* person has no children and is not the center person: a call for a       *)
(* person that has no entry yet writes the main entry if the person is     *)
(* the center person (with children or without, whatever its code is) or   *)
(* has a child reference in some family, and writes none otherwise.        *)

\* the person write_person is called for next
PersonAtKey == map[gen_keys[at[1]][at[2]]]

\* the step has written the main entry of h
MainEntryWritten(h) ==
  \E i \in (Len(doc) + 1)..Len(doc') :
    doc'[i].kind = "person" /\ doc'[i].h = h

C17_SkipsChildlessNonRoot ==
  [][ (pc = "writing" /\ at[2] > 0 /\ PersonAtKey \notin DOMAIN printed_people_refs)
      => (MainEntryWritten(PersonAtKey)
          <=> (PersonAtKey = center \/ HasChildren(PersonAtKey))) ]_vars

----------------------------------------------------------------------------
(* C18: within one run of the report every person is given at most one     *)
(* full entry: the document holds at most one main entry of a person and   *)
(* at most one full spouse entry of a person, so that every later mention  *)
(* of the person is a back-reference.                                      *)

\* the places of the document that hold an entry of one of the kinds for h
Entries(kinds, h) ==
  {i \in 1..Len(doc) : doc[i].kind \in kinds /\ doc[i].h = h}

C18_OneFullEntry ==
  \A h \in Persons :
    /\ Cardinality(Entries({"person"}, h)) <= 1
    /\ Cardinality(Entries({"spouse"}, h)) <= 1

----------------------------------------------------------------------------
(* C19: write_report does not change what the numbering produced: every    *)
(* step from the title to the end of the report, the entries of persons    *)
(* and the child tables included, leaves map, gen_keys and dnumber as they *)
(* were at the end of the numbering; it only adds persons to               *)
(* printed_people_refs, whose recorded texts stay, and to gen_handles.     *)

KeepsNumbering ==
  pc \in {"done", "writing"}
  => /\ map' = map
     /\ gen_keys' = gen_keys
     /\ dnumber' = dnumber
     /\ DOMAIN printed_people_refs \subseteq DOMAIN printed_people_refs'
     /\ \A h \in DOMAIN printed_people_refs :
          printed_people_refs'[h] = printed_people_refs[h]
     /\ DOMAIN gen_handles \subseteq DOMAIN gen_handles'

C19_RenderingKeepsNumbering == [][KeepsNumbering]_vars

\* a finished report with a child table, a recorded spouse and two persons
\* written under their keys
C19_Witness ==
  /\ pc = "written"
  /\ \E i \in 1..Len(doc) : doc[i].kind = "child"
  /\ \E h \in DOMAIN printed_people_refs : h \notin DOMAIN dnumber
  /\ Cardinality(DOMAIN printed_people_refs) >= 3
  /\ Cardinality(DOMAIN gen_handles) >= 2

----------------------------------------------------------------------------
(* C20: under Modified Henry every visit of a person, the first one and    *)
(* every later one through another lineage, of the center person and of    *)
(* every deeper descendant, writes the code it offers into dnumber         *)
(* whatever code the person holds, so that the final code is the one of    *)
(* the last visit.                                                         *)

\* the step records a visit and leaves the code of that visit in dnumber
VisitOverwrites ==
  (numbering = "Modified Henry" /\ Len(visits') = Len(visits) + 1)
  => dnumber'[visits'[Len(visits')].h] = visits'[Len(visits')].pid

C20_MHenryOverwrites == [][VisitOverwrites]_vars

----------------------------------------------------------------------------
(* C21: under d'Aboville a family both of whose parents hold codes does    *)
(* not advance the ordinal counter of either parent: after numbering, a    *)
(* child of the next family of a parent, all of whose earlier families are *)
(* doubly counted, holds the parent's code followed by the child's         *)
(* position in its own family, whichever parent was visited first.         *)

\* both parents of the family hold a code in dn
DoublyCounted(dn, family) ==
  Truthy(ParentNums(dn, family)[1]) /\ Truthy(ParentNums(dn, family)[2])

\* the number of recorded visits of h
VisitCount(h) == Cardinality({k \in 1..Len(visits) : visits[k].h = h})

\* the k-th family of p follows doubly counted families only, is not
\* doubly counted itself and is the only parent family of its children, and
\* p and the child g were visited once
AfterDoubleFamilies(p, fams, k, g) ==
  /\ k > 1
  /\ \A i \in 1..(k - 1) :
       DoublyCounted(dnumber, db[fams[i]]) /\ db[fams[i]].children # <<>>
  /\ ~DoublyCounted(dnumber, db[fams[k]])
  /\ Truthy(DnumGet(dnumber, p))
  /\ g \in DOMAIN dnumber
  /\ Len(get_parent_family_handle_list(db, g)) = 1
  /\ VisitCount(p) = 1
  /\ VisitCount(g) = 1

EntryNumsAt(fh, first_child, gen) ==
  visits[Max({k \in 1..Len(visits) :
                visits[k].h = first_child /\ visits[k].gen = gen})]
    .parent_nums[CHOOSE i \in 1..Len(get_parent_family_handle_list(db, first_child)) :
                   get_parent_family_handle_list(db, first_child)[i] = fh]

EntryNums(pos, fh) ==
  IF pos[2] = 1 THEN ParentNums(dnumber, db[fh])
  ELSE EntryNumsAt(fh, db[fh].children[1], Top.gen + 1)

\* the ordinal passed and the counter left for a family entered with the
\* parent codes nums
OrdinalStep(pos, nums) ==
  IF Truthy(nums[1]) /\ Truthy(nums[2])
  THEN /\ visits'[Len(visits')].child_num = DecStr(pos[2])
       /\ stack'[2].index = Top.index
  ELSE /\ visits'[Len(visits')].child_num = DecStr(Top.index)
       /\ stack'[2].index = Top.index + 1

EnteredDoubleFamily ==
  ( /\ pc = "numbering"
    /\ stack # <<>>
    /\ Top.fn = "daboville"
    /\ Len(visits') = Len(visits) + 1 )
  => OrdinalStep(FramePos(Top),
                 EntryNums(FramePos(Top),
                           get_family_handle_list(db, Top.h)[FramePos(Top)[1]]))

----------------------------------------------------------------------------
(* C22: under d'Aboville the code of a person with two or more parent      *)
(* families is "{" followed by the sub-codes of the families written       *)
(* "a:[c1]", "b:[c2]", ... in the order of the parent families and joined  *)
(* by ", ", followed by "}"; with at most one parent family the code is    *)
(* the bare sub-code; a parent family none of whose parents holds a code   *)
(* contributes the empty sub-code.                                         *)

\* "a:[c1], b:[c2], ..." for the sub-codes from the i-th on
RECURSIVE JoinedFrom(_, _)
JoinedFrom(subs, i) ==
  IF i > Len(subs) THEN <<>>
  ELSE (IF i > 1 THEN <<",", " ">> ELSE <<>>)
       \o <<Letters[i], ":", "[">> \o subs[i] \o <<"]">>
       \o JoinedFrom(subs, i + 1)

\* the code the claim gives to a person with the sub-codes subs
ComposedCode(subs) ==
  IF subs = <<>> THEN <<>>
  ELSE IF Len(subs) = 1 THEN subs[1]
  ELSE <<"{">> \o JoinedFrom(subs, 1) \o <<"}">>

\* the i-th parent family of the visit had no parent with a code
NoParentCode(v, i) ==
  ~Truthy(v.parent_nums[i][1]) /\ ~Truthy(v.parent_nums[i][2])

\* the visit composed its code as the claim says, a parent family without
\* a parent code contributing the sub-code empty(v)
Composed(v, empty(_)) ==
  /\ Len(v.subs) = Len(get_parent_family_handle_list(db, v.h))
  /\ v.pid = ComposedCode(v.subs)
  /\ \A i \in 1..Len(v.subs) : NoParentCode(v, i) => v.subs[i] = empty(v)

C22_ComposedCode ==
  numbering = "d'Aboville"
  => \A k \in 1..Len(visits) : Composed(visits[k], LAMBDA v : <<>>)

(* C22 as amended: the same, but a parent family none of whose parents     *)
(* holds a code contributes the empty sub-code in a call at a generation   *)
(* after the first and the ordinal the call was given ("1") in the call    *)
(* on the center person at generation 1.                                   *)
C22_ComposedCodeWithSeed ==
  numbering = "d'Aboville"
  => \A k \in 1..Len(visits) :
       Composed(visits[k], LAMBDA v : IF v.gen = 1 THEN v.child_num ELSE <<>>)

\* a person after the first generation with two parent families, one of
\* them without a parent code, has been numbered, and so has the center
\* person from a parent family without parent codes
C22_Witness ==
  /\ Finished
  /\ numbering = "d'Aboville"
  /\ \E k \in 1..Len(visits) :
       /\ visits[k].gen > 1
       /\ Len(visits[k].subs) >= 2
       /\ \E i \in 1..Len(visits[k].subs) :
            NoParentCode(visits[k], i) /\ visits[k].subs[i] = <<>>
       /\ \E i \in 1..Len(visits[k].subs) : visits[k].subs[i] # <<>>
  /\ visits[1].gen = 1
  /\ visits[1].subs = <<<<"1">>>>

----------------------------------------------------------------------------
(* C23: write_report walks the generations in ascending order and writes   *)
(* the heading of a generation before everything else of it.  A generation *)
(* after the first none of whose members has a child reference gets the    *)
(* note after its heading and no entry; the first generation never gets    *)
(* the note; in every other generation write_person is called for each     *)
(* index of the bucket, in the order of the bucket.                        *)

\* the generation whose heading is the last one at or before place i
GenAt(i) == Cardinality({j \in 1..i : doc[j].kind = "generation"})

\* the places of the document that belong to generation g
Segment(g) == {i \in 1..Len(doc) : GenAt(i) = g}

\* generation g gets the note in place of entries
Stub(g) ==
  g > 1 /\ \A k \in 1..Len(gen_keys[g]) : ChildRefs(map[gen_keys[g][k]]) = <<>>

\* the first place of person h in the bucket of generation g, 0 if none
FirstPlace(g, h) ==
  IF \E k \in 1..Len(gen_keys[g]) : map[gen_keys[g][k]] = h
  THEN CHOOSE k \in 1..Len(gen_keys[g]) :
         /\ map[gen_keys[g][k]] = h
         /\ \A n \in 1..(k - 1) : map[gen_keys[g][n]] # h
  ELSE 0

\* the headings count 1, 2, ... and everything but the title and the page
\* breaks comes after the heading of its generation
HeadingsFirst ==
  \A i \in 1..Len(doc) :
    /\ doc[i].kind = "generation" => doc[i].h = GenAt(i)
    /\ doc[i].kind = "title" => i = 1
    /\ doc[i].kind = "page_break" =>
         i < Len(doc) /\ doc[i + 1].kind = "generation" /\ doc[i + 1].h > 1
    /\ doc[i].kind \notin {"title", "page_break"} => GenAt(i) \in 1..Len(gen_keys)

\* a generation has the note and nothing else after its heading exactly if
\* it is a later generation without child references
StubOrEntries ==
  \A i \in 1..Len(doc) :
    /\ (doc[i].kind = "generation" /\ Stub(doc[i].h)) =>
         /\ doc[i + 1].kind = "no_children"
         /\ \A j \in Segment(doc[i].h) :
              j \in {i, i + 1} \/ doc[j].kind = "page_break"
    /\ doc[i].kind = "no_children" =>
         /\ doc[i - 1].kind = "generation"
         /\ Stub(doc[i - 1].h)

\* the main entries of a generation are entries of persons of its bucket,
\* in the order of the bucket
BucketOrderKept ==
  \A i \in 1..Len(doc) :
    doc[i].kind = "person" =>
      /\ FirstPlace(GenAt(i), doc[i].h) > 0
      /\ \A j \in 1..(i - 1) :
           (doc[j].kind = "person" /\ GenAt(j) = GenAt(i))
           => FirstPlace(GenAt(i), doc[j].h) < FirstPlace(GenAt(i), doc[i].h)

\* the places <<generation, position>> of h in the generations with entries
Places(h) ==
  {gk \in (1..Len(gen_keys)) \X (1..Len(map)) :
     /\ gk[2] <= Len(gen_keys[gk[1]])
     /\ ~Stub(gk[1])
     /\ map[gen_keys[gk[1]][gk[2]]] = h}

\* the place in S that the walk comes to last
LastOf(S) ==
  CHOOSE p \in S :
    \A q \in S : q[1] < p[1] \/ (q[1] = p[1] /\ q[2] <= p[2])

\* the index of h that the walk comes to last
LastKey(h) == gen_keys[LastOf(Places(h))[1]][LastOf(Places(h))[2]]

\* after the report every generation has its heading, and write_person was
\* called for every index of every generation that has entries
EveryIndexWritten ==
  pc = "written" =>
    /\ GenAt(Len(doc)) = Len(gen_keys)
    /\ \A g \in 1..Len(gen_keys) : \A k \in 1..Len(gen_keys[g]) :
         LET h == map[gen_keys[g][k]]
         IN  /\ ~Stub(g) => (h \in DOMAIN gen_handles /\ gen_handles[h] = LastKey(h))
             /\ (~Stub(g) /\ ~SkipPerson(h)) =>
                  \E i \in 1..Len(doc) : doc[i].kind = "person" /\ doc[i].h = h

\* one step of the walk: from the heading to the first index or, after the
\* note, to the next generation; from an index to the next one
WalkStep ==
  pc = "writing" =>
    IF at[2] = 0
    THEN at[1] <= Len(gen_keys) =>
           at' = IF Stub(at[1]) THEN <<at[1] + 1, 0>> ELSE <<at[1], 1>>
    ELSE /\ gen_handles'[map[gen_keys[at[1]][at[2]]]] = gen_keys[at[1]][at[2]]
         /\ \/ pc' = "raised"
            \/ at' = IF at[2] < Len(gen_keys[at[1]])
                     THEN <<at[1], at[2] + 1>> ELSE <<at[1] + 1, 0>>

C23_GenerationWalk ==
  /\ [](HeadingsFirst /\ StubOrEntries /\ BucketOrderKept /\ EveryIndexWritten)
  /\ [][WalkStep]_vars

\* a finished report with a page break, a generation that has the note, and
\* a generation after the first with the main entries of two persons
C23_Witness ==
  /\ pc = "written"
  /\ \E i \in 1..Len(doc) : doc[i].kind = "no_children"
  /\ \E i \in 1..Len(doc) : doc[i].kind = "page_break"
  /\ \E i, j \in 1..Len(doc) :
       /\ i < j
       /\ doc[i].kind = "person" /\ doc[j].kind = "person"
       /\ GenAt(i) = GenAt(j) /\ GenAt(i) > 1

----------------------------------------------------------------------------
(* C24: with the child tables on, write_report returns without raising,    *)
(* for every database and every max_generations: once the report has       *)
(* begun to write, no exception ends it, every dnumber lookup of a child   *)
(* table being for a person that holds a code.                             *)
C24_ReportCompletes ==
  listchildren => ~(pc = "raised" /\ doc # <<>>)

----------------------------------------------------------------------------
(* C25: under d'Aboville, after numbering, the code of every numbered      *)
(* person but the center person is the code that the codes its parents     *)
(* hold at the end give: a later visit that changes the code of a person   *)
(* changes the codes of its numbered descendants with it.                  *)

\* the last recorded visit of h
LastVisit(h) ==
  visits[Max({k \in 1..Len(visits) : visits[k].h = h})]

\* the code of h computed from the dnumber map as it is now, with the
\* ordinal and the generation of the visit v
Derived(h, v) == DabovilleNumber(dnumber, h, v.child_num, v.gen).number

C25_CodesFollowParents ==
  (Finished /\ numbering = "d'Aboville")
  => \A h \in DOMAIN dnumber \ {center} : dnumber[h] = Derived(h, LastVisit(h))

----------------------------------------------------------------------------
(* C26: under d'Aboville the numbering of an acyclic database ends without *)
(* an exception: first_num and last_num are chosen for every pair of       *)
(* parent codes, equal codes and merged codes with as many segments as the *)
(* other code included.                                                    *)
C26_DabovilleCompletes ==
  (numbering = "d'Aboville" /\ center # 0 /\ Acyclic)
  => ~(pc = "raised" /\ doc = <<>>)
====
